---- MODULE Spec2Model ----
(***************************************************************************)
(* Schema inference of src/schema/generator.rs (SchemaGenerator).          *)
(*                                                                         *)
(* A serde_json Value is modelled as a tagged record:                      *)
(*   Null            [t |-> "Null"]                                        *)
(*   Bool(b)         [t |-> "Bool",   b |-> b]                             *)
(*   String(s)       [t |-> "String", s |-> s]                             *)
(*   Number(n)       [t |-> "Number", n |-> n]   n as in NumberRepr below  *)
(*   Array(a)        [t |-> "Array",  a |-> sequence of Values]            *)
(*   Object(o)       [t |-> "Object", o |-> function from keys to Values]  *)
(* A schemars Schema wraps a Value that is an Object or a Bool.            *)
(* A call ends with a Schema, with Err (serde_json::Error) or with Panic   *)
(* (an unwrap on None or an index of a missing map entry).                 *)
(***************************************************************************)
EXTENDS Integers, Sequences, FiniteSets, TLC

VARIABLES known_types, iter_order, call, args, result, pc

vars == <<known_types, iter_order, call, args, result, pc>>

(***************************************************************************)
(* Bounds of the model.                                                    *)
(***************************************************************************)
\* instances have at most MaxNodes nodes (a node is a primitive, an array or an object)
MaxNodes == 4
\* find_common_schema is applied to at most MaxSchemas schemas
MaxSchemas == 3

(***************************************************************************)
(* serde_json::Value                                                       *)
(***************************************************************************)
Null == [t |-> "Null"]
Bool(b) == [t |-> "Bool", b |-> b]
String(s) == [t |-> "String", s |-> s]
Number(n) == [t |-> "Number", n |-> n]
Array(a) == [t |-> "Array", a |-> a]
Object(o) == [t |-> "Object", o |-> o]

\* Map::new()
EmptyMap == [k \in {} |-> Null]

\* Map::insert: a new key is added, the value of an existing key is replaced
Insert(m, k, v) == [x \in DOMAIN m \cup {k} |-> IF x = k THEN v ELSE m[x]]

\* value[k] = v on a Value::Object
With(value, k, v) == Object(Insert(value.o, k, v))

\* Map::remove
Remove(m, k) == [x \in DOMAIN m \ {k} |-> m[x]]

\* Map::get, an Option<&Value>
None == [some |-> FALSE]
Some(v) == [some |-> TRUE, v |-> v]
Get(m, k) == IF k \in DOMAIN m THEN Some(m[k]) ELSE None

\* outcomes that are no Schema
Err == [t |-> "Err"]
Panic == [t |-> "Panic"]
Failed(r) == r.t \in {"Err", "Panic"}

\* Schema::try_from(Value): a schema is a JSON object or a boolean
TryFrom(v) == IF v.t \in {"Object", "Bool"} THEN v ELSE Err

(***************************************************************************)
(* serde_json::Number: PosInt(u64), NegInt(i64) or Float(f64).  The        *)
(* magnitude of an integer is kept at its full 64-bit width, as four       *)
(* 16-bit limbs, most significant first; a float is whole + frac / 1000.   *)
(***************************************************************************)
PosInt(limbs) == [rep |-> "PosInt", mag |-> limbs, frac |-> 0]
NegInt(limbs) == [rep |-> "NegInt", mag |-> limbs, frac |-> 0]
Float(whole, frac) == [rep |-> "Float", mag |-> <<0, 0, 0, whole>>, frac |-> frac]

\* i64::MAX = 2^63 - 1
I64Max == <<32767, 65535, 65535, 65535>>

\* u64 comparison v <= w on limbs
RECURSIVE LimbsLeq(_, _)
LimbsLeq(v, w) ==
    IF Len(v) = 0 THEN TRUE
    ELSE IF Head(v) # Head(w) THEN Head(v) < Head(w)
    ELSE LimbsLeq(Tail(v), Tail(w))

\* a mutant of is_i64: decides by the value, so that 3.0 counts as an integer
is_i64_by_value(n) ==
    /\ n.frac = 0
    /\ n.rep = "PosInt" => LimbsLeq(n.mag, I64Max)

\* Number::is_i64: PosInt(v) => v <= i64::MAX, NegInt(_) => true, Float(_) => false
is_i64(n) ==
    CASE n.rep = "PosInt" -> LimbsLeq(n.mag, I64Max)
      [] n.rep = "NegInt" -> TRUE
      [] n.rep = "Float" -> FALSE

(***************************************************************************)
(* The schema vocabulary                                                   *)
(***************************************************************************)
Draft07 == String("http://json-schema.org/draft-07/schema#")

\* json_schema!({"type": name})
TypeSchema(name) == Object([type |-> String(name)])

\* json!({"type": "object", "properties": {}, "required": []})
NewObjectSchema ==
    Object([type |-> String("object"),
            properties |-> Object(EmptyMap),
            required |-> Array(<<>>)])

\* json_schema!({"type": "array", "items": items})
ArraySchema(items) == Object([type |-> String("array"), items |-> items])

\* json!({"oneOf": [schema1, schema2]})
OneOf(schema1, schema2) == Object([oneOf |-> Array(<<schema1, schema2>>)])

(***************************************************************************)
(* Field names and their order.  Keys lists the field names of the model   *)
(* in the byte order of str::cmp ('$' sorts before the letters).  A map    *)
(* is iterated in the order of iter_order, a permutation of Keys: sorted   *)
(* order for serde_json's default BTreeMap, insertion order under its      *)
(* preserve_order feature.                                                 *)
(***************************************************************************)
Keys == <<"$ref", "a", "b">>
KeySet == {Keys[i] : i \in DOMAIN Keys}
KeyRank(k) == CHOOSE i \in DOMAIN Keys : Keys[i] = k

\* a.as_str().unwrap().cmp(b.as_str().unwrap()) == Less, on Value::String
StrLess(x, y) == KeyRank(x.s) < KeyRank(y.s)

\* the keys of a map in iteration order
Iter(m) == SelectSeq(iter_order, LAMBDA k : k \in DOMAIN m)

\* known_types.try_get(instance)
try_get(instance) ==
    IF instance \in DOMAIN known_types THEN Some(known_types[instance]) ELSE None

(***************************************************************************)
(* SchemaGenerator                                                         *)
(***************************************************************************)
RECURSIVE generate_schema(_), generate_object_schema(_), generate_array_schema(_)
RECURSIVE object_field(_, _, _), object_fields(_, _, _), item_schemas(_)
RECURSIVE sort_by(_), find_common_from(_, _, _), find_common_back(_, _, _)

\* required.sort_by(|a, b| a.as_str().unwrap().cmp(b.as_str().unwrap())):
\* a stable sort; each element is inserted behind the sorted rest's elements
\* that are not greater than it
SortedInsert(x, sorted) ==
    LET n == Cardinality({i \in DOMAIN sorted : ~StrLess(x, sorted[i])})
    IN  SubSeq(sorted, 1, n) \o <<x>> \o SubSeq(sorted, n + 1, Len(sorted))

\* a mutant of sort_by: the list is left in insertion order
sort_by_unsorted(required) == required

sort_by(required) ==
    IF Len(required) = 0 THEN <<>>
    ELSE SortedInsert(required[Len(required)],
                      sort_by(SubSeq(required, 1, Len(required) - 1)))

\* lines 53-55: obj.remove("$schema") when the sub-schema is an object
RemoveSchemaKey(sub_value) ==
    IF sub_value.t = "Object" THEN Object(Remove(sub_value.o, "$schema"))
    ELSE sub_value

\* a mutant of object_field: "$ref" is treated like every other field
object_field_ref_as_property(schema, key, value) ==
    LET sub_schema == generate_schema(value)
    IN  IF Failed(sub_schema) THEN sub_schema
        ELSE LET sub_value == RemoveSchemaKey(sub_schema)
                 properties == Object(Insert(schema.o["properties"].o, key, sub_value))
                 required == Array(Append(schema.o["required"].a, String(key)))
             IN  Object(Insert(Insert(schema.o, "properties", properties),
                               "required", required))

\* lines 48-62, the body of the loop over the fields: the schema after the
\* field (key, value), or the failure of the nested call
object_field(schema, key, value) ==
    IF key = "$ref" THEN Object(Insert(schema.o, "$ref", value))
    ELSE LET sub_schema == generate_schema(value)
         IN  IF Failed(sub_schema) THEN sub_schema
             ELSE LET sub_value == RemoveSchemaKey(sub_schema)
                      properties == Object(Insert(schema.o["properties"].o, key, sub_value))
                      required == Array(Append(schema.o["required"].a, String(key)))
                  IN  Object(Insert(Insert(schema.o, "properties", properties),
                                    "required", required))

\* lines 47-63, the loop over the fields keys of obj that are left
object_fields(schema, obj, keys) ==
    IF Len(keys) = 0 THEN schema
    ELSE LET next == object_field(schema, Head(keys), obj[Head(keys)])
         IN  IF Failed(next) THEN next
             ELSE object_fields(next, obj, Tail(keys))

\* lines 66-77: sort "required", set "$schema", Schema::try_from
FinishObjectSchema(schema) ==
    LET sorted == Insert(schema.o, "required", Array(sort_by(schema.o["required"].a)))
    IN  TryFrom(Object(Insert(sorted, "$schema", Draft07)))

\* a mutant of generate_object_schema: the known schema gets the "$schema" marker
generate_object_schema_marks_known(instance) ==
    LET known_scheme == try_get(instance)
    IN  IF known_scheme.some
        THEN (IF known_scheme.v.t = "Object"
              THEN With(known_scheme.v, "$schema", Draft07) ELSE known_scheme.v)
        ELSE LET schema == IF instance.t = "Object"
                           THEN object_fields(NewObjectSchema, instance.o, Iter(instance.o))
                           ELSE NewObjectSchema
             IN  IF Failed(schema) THEN schema ELSE FinishObjectSchema(schema)

\* lines 33-79
generate_object_schema(instance) ==
    LET known_scheme == try_get(instance)
    IN  IF known_scheme.some THEN known_scheme.v
        ELSE LET schema == IF instance.t = "Object"
                           THEN object_fields(NewObjectSchema, instance.o, Iter(instance.o))
                           ELSE NewObjectSchema
             IN  IF Failed(schema) THEN schema ELSE FinishObjectSchema(schema)

\* a mutant of ChainInsert: the left side's value is kept on a collision
ChainInsertLeftWins(props1, props2) ==
    [k \in DOMAIN props1 \cup DOMAIN props2 |->
        IF k \in DOMAIN props1 THEN props1[k] ELSE props2[k]]

\* lines 145-151: the entries of props1, then those of props2, inserted into a
\* new map; a later insert replaces the value of an earlier one
ChainInsert(props1, props2) ==
    [k \in DOMAIN props1 \cup DOMAIN props2 |->
        IF k \in DOMAIN props2 THEN props2[k] ELSE props1[k]]

\* line 134-139: both are JSON objects, with equal "type" entries (two missing
\* entries are equal) and a "properties" key each
MergeCondition(schema1, schema2) ==
    /\ schema1.t = "Object"
    /\ schema2.t = "Object"
    /\ Get(schema1.o, "type") = Get(schema2.o, "type")
    /\ "properties" \in DOMAIN schema1.o
    /\ "properties" \in DOMAIN schema2.o

\* lines 140-154: obj1["type"] panics on a missing entry, as_object().unwrap() on
\* a "properties" value that is no object
StructuralMerge(obj1, obj2) ==
    IF \/ "type" \notin DOMAIN obj1
       \/ obj1["properties"].t # "Object"
       \/ obj2["properties"].t # "Object"
    THEN Panic
    ELSE Object([type |-> obj1["type"],
                 properties |-> Object(ChainInsert(obj1["properties"].o,
                                                   obj2["properties"].o))])

\* a mutant of merge_schemas: the structural merge is taken only when both
\* property mappings are non-empty
merge_schemas_non_empty(schema1, schema2) ==
    IF schema1 = schema2 THEN schema1
    ELSE IF /\ MergeCondition(schema1, schema2)
            /\ schema1.o["properties"].t = "Object"
            /\ schema2.o["properties"].t = "Object"
            /\ DOMAIN schema1.o["properties"].o # {}
            /\ DOMAIN schema2.o["properties"].o # {}
         THEN LET merged == StructuralMerge(schema1.o, schema2.o)
              IN  IF Failed(merged) THEN merged ELSE TryFrom(merged)
         ELSE TryFrom(OneOf(schema1, schema2))

\* a mutant of merge_schemas: no short-circuit on equal schemas
merge_schemas_no_short_circuit(schema1, schema2) ==
    IF MergeCondition(schema1, schema2)
    THEN LET merged == StructuralMerge(schema1.o, schema2.o)
         IN  IF Failed(merged) THEN merged ELSE TryFrom(merged)
    ELSE TryFrom(OneOf(schema1, schema2))

\* lines 121-158
merge_schemas(schema1, schema2) ==
    IF schema1 = schema2 THEN schema1
    ELSE IF MergeCondition(schema1, schema2)
         THEN LET merged == StructuralMerge(schema1.o, schema2.o)
              IN  IF Failed(merged) THEN merged ELSE TryFrom(merged)
         ELSE TryFrom(OneOf(schema1, schema2))

\* the loop of the mutant below
find_common_back(common, schemas, i) ==
    IF i < 1 THEN common
    ELSE LET merged == merge_schemas(schemas[i], common)
         IN  IF Failed(merged) THEN merged
             ELSE find_common_back(merged, schemas, i - 1)

\* a mutant of find_common_schema: the fold runs from the last schema to the first
find_common_schema_from_right(schemas) ==
    IF Len(schemas) = 0 THEN Object(EmptyMap)
    ELSE find_common_back(schemas[Len(schemas)], schemas, Len(schemas) - 1)

\* lines 113-117: the loop over schemas[i ..], common being the accumulator
find_common_from(common, schemas, i) ==
    IF i > Len(schemas) THEN common
    ELSE LET merged == merge_schemas(common, schemas[i])
         IN  IF Failed(merged) THEN merged
             ELSE find_common_from(merged, schemas, i + 1)

\* lines 106-119
find_common_schema(schemas) ==
    IF Len(schemas) = 0 THEN Object(EmptyMap)
    ELSE find_common_from(schemas[1], schemas, 2)

\* lines 92-96: item_schemas as an Array, or the first failure
item_schemas(arr) ==
    IF Len(arr) = 0 THEN Array(<<>>)
    ELSE LET first == generate_schema(Head(arr))
         IN  IF Failed(first) THEN first
             ELSE LET rest == item_schemas(Tail(arr))
                  IN  IF Failed(rest) THEN rest ELSE Array(<<first>> \o rest.a)

\* lines 81-104
generate_array_schema(arr) ==
    IF Len(arr) = 0 THEN ArraySchema(Object(EmptyMap))
    ELSE LET schemas == item_schemas(arr)
         IN  IF Failed(schemas) THEN schemas
             ELSE LET common_schema == find_common_schema(schemas.a)
                  IN  IF Failed(common_schema) THEN common_schema
                      ELSE ArraySchema(common_schema)

\* lines 13-31
generate_schema(instance) ==
    CASE instance.t = "Object" -> generate_object_schema(instance)
      [] instance.t = "Array" -> generate_array_schema(instance.a)
      [] instance.t = "String" -> TypeSchema("string")
      [] instance.t = "Number" ->
            IF is_i64(instance.n) THEN TypeSchema("integer") ELSE TypeSchema("number")
      [] instance.t = "Bool" -> TypeSchema("boolean")
      [] instance.t = "Null" -> TypeSchema("null")

(***************************************************************************)
(* Inputs                                                                  *)
(***************************************************************************)
\* the primitives that occur inside arrays and objects
NestedPrims == {Null, String("x"), Number(PosInt(<<0, 0, 0, 1>>))}

\* numbers in each representation, inside and outside the i64 range
Numbers ==
    {Number(n) : n \in
        {PosInt(<<0, 0, 0, 0>>), PosInt(<<0, 0, 0, 42>>), PosInt(I64Max),
         PosInt(<<32768, 0, 0, 0>>), PosInt(<<65535, 65535, 65535, 65535>>),
         NegInt(<<0, 0, 0, 1>>), NegInt(<<32768, 0, 0, 0>>),
         Float(3, 0), Float(3, 142), Float(0, 500)}}

Prims == NestedPrims \cup Numbers \cup {Bool(TRUE), Bool(FALSE), String("")}

RECURSIVE InstOfSize(_), InstSeqs(_, _)

\* the sequences of len instances that have total nodes together
InstSeqs(len, total) ==
    IF len = 0 THEN (IF total = 0 THEN {<<>>} ELSE {})
    ELSE UNION {{<<x>> \o r : x \in InstOfSize(k), r \in InstSeqs(len - 1, total - k)} :
                  k \in 1..(total - (len - 1))}

\* the object with the fields ks (a set of keys), valued by vs in the order of Keys
ObjectOf(ks, vs) ==
    LET names == SelectSeq(Keys, LAMBDA k : k \in ks)
    IN  Object([k \in ks |-> vs[CHOOSE i \in DOMAIN names : names[i] = k]])

\* the arrays and objects of n nodes
InstOfSize(n) ==
    IF n = 1 THEN NestedPrims \cup {Array(<<>>), Object(EmptyMap)}
    ELSE {Array(s) : s \in UNION {InstSeqs(len, n - 1) : len \in 1..(n - 1)}}
         \cup UNION {{ObjectOf(ks, vs) : vs \in InstSeqs(Cardinality(ks), n - 1)} :
                       ks \in SUBSET KeySet \ {{}}}

Instances == Prims \cup UNION {InstOfSize(n) : n \in 1..MaxNodes}

\* the schemas given to merge_schemas: inferred object schemas with and without
\* "required", "$schema" and "$ref", primitives, unions, and schemas a registry
\* may supply (a boolean schema, no "type", a "properties" that is no object)
StringSchema == TypeSchema("string")
IntegerSchema == TypeSchema("integer")

PropMaps ==
    UNION {[ks -> {StringSchema, IntegerSchema}] : ks \in SUBSET {"a", "b"}}

RequiredOf(pm) == Array([i \in 1..Cardinality(DOMAIN pm) |->
                            String(SelectSeq(Keys, LAMBDA k : k \in DOMAIN pm)[i])])

BareObjectSchema(pm) == Object([type |-> String("object"), properties |-> Object(pm)])

ObjectSchemas ==
    UNION {{BareObjectSchema(pm),
            With(With(BareObjectSchema(pm), "required", RequiredOf(pm)),
                 "$schema", Draft07),
            With(With(BareObjectSchema(pm), "required", RequiredOf(pm)),
                 "$ref", String("#/definitions/x"))} :
           pm \in PropMaps}

OddSchemas ==
    {Bool(TRUE), Object(EmptyMap), StringSchema, IntegerSchema,
     OneOf(IntegerSchema, StringSchema), ArraySchema(IntegerSchema),
     ArraySchema(StringSchema),
     Object([properties |-> Object([a |-> StringSchema])]),
     Object([properties |-> Object([b |-> IntegerSchema])]),
     Object([type |-> String("object"), properties |-> Bool(TRUE)]),
     Object([type |-> String("record"), properties |-> Object([a |-> StringSchema])]),
     Object([type |-> String("record"), properties |-> Object([b |-> StringSchema])])}

Schemas == ObjectSchemas \cup OddSchemas

\* the schemas given to find_common_schema
FoldSchemas ==
    {StringSchema, IntegerSchema, TypeSchema("boolean"),
     OneOf(IntegerSchema, StringSchema),
     With(Object([type |-> String("object"), properties |-> Object([a |-> StringSchema]),
                  required |-> Array(<<String("a")>>)]), "$schema", Draft07),
     With(Object([type |-> String("object"), properties |-> Object([b |-> IntegerSchema]),
                  required |-> Array(<<String("b")>>)]), "$schema", Draft07),
     Object([properties |-> Object([a |-> StringSchema])])}

SchemaSeqs == UNION {[1..n -> FoldSchemas] : n \in 0..MaxSchemas}

\* known-type registries: none, and two that answer for some instances
NoKnownTypes == [k \in {} |-> Null]

InstA == Object([a |-> String("x")])
InstB == Object([b |-> String("x")])

KnownUntyped ==
    (InstA :> Object([title |-> String("A"), properties |-> Object([a |-> StringSchema])]))
    @@ (InstB :> Object([title |-> String("B"), properties |-> Object([b |-> StringSchema])]))
    @@ (Object(EmptyMap) :> Bool(TRUE))
    @@ (String("x") :> Object([title |-> String("S")]))
    @@ (Array(<<>>) :> Object([title |-> String("L")]))

KnownTyped ==
    (InstA :> With(Object([type |-> String("object"),
                           properties |-> Object([a |-> StringSchema])]),
                   "$schema", Draft07))
    @@ (InstB :> Object([type |-> String("object"), properties |-> Null]))
    @@ (Array(<<Null>>) :> Object([title |-> String("L")]))

Orders == {p \in [1..Len(Keys) -> KeySet] : \A i, j \in 1..Len(Keys) : p[i] = p[j] => i = j}

(***************************************************************************)
(* The state machine: a generator is constructed over a registry, a call   *)
(* is made with its arguments, and the call returns.                       *)
(***************************************************************************)
Pending == [t |-> "Pending"]

Init ==
    /\ pc = "ready"
    /\ result = Pending
    /\ \/ /\ call = "generate_schema"
          /\ args \in {[instance |-> i] : i \in Instances}
          /\ \/ known_types = NoKnownTypes /\ iter_order \in Orders
             \/ known_types \in {KnownUntyped, KnownTyped} /\ iter_order = Keys
       \/ /\ call = "find_common_schema"
          /\ args \in {[schemas |-> ss] : ss \in SchemaSeqs}
          /\ known_types = NoKnownTypes
          /\ iter_order = Keys
       \/ /\ call = "merge_schemas"
          /\ args \in {[schema1 |-> s1, schema2 |-> s2] : s1, s2 \in Schemas}
          /\ known_types = NoKnownTypes
          /\ iter_order = Keys

GenerateSchema ==
    /\ pc = "ready"
    /\ call = "generate_schema"
    /\ result' = generate_schema(args.instance)
    /\ pc' = "done"
    /\ UNCHANGED <<known_types, iter_order, call, args>>

FindCommonSchema ==
    /\ pc = "ready"
    /\ call = "find_common_schema"
    /\ result' = find_common_schema(args.schemas)
    /\ pc' = "done"
    /\ UNCHANGED <<known_types, iter_order, call, args>>

MergeSchemas ==
    /\ pc = "ready"
    /\ call = "merge_schemas"
    /\ result' = merge_schemas(args.schema1, args.schema2)
    /\ pc' = "done"
    /\ UNCHANGED <<known_types, iter_order, call, args>>

Next == GenerateSchema \/ FindCommonSchema \/ MergeSchemas

Spec == Init /\ [][Next]_vars

(***************************************************************************)
(* Vocabulary of the properties                                            *)
(***************************************************************************)
Returned == pc = "done"
Generated == Returned /\ call = "generate_schema"
Merged == Returned /\ call = "merge_schemas"
Folded == Returned /\ call = "find_common_schema"

\* the values directly inside a value
Children(v) ==
    CASE v.t = "Object" -> {v.o[k] : k \in DOMAIN v.o}
      [] v.t = "Array" -> {v.a[i] : i \in DOMAIN v.a}
      [] OTHER -> {}

HasKey(v, k) == v.t = "Object" /\ k \in DOMAIN v.o

\* some value at or below v is an object with a "$schema" key
RECURSIVE MarkedWithin(_)
MarkedWithin(v) == HasKey(v, "$schema") \/ \E c \in Children(v) : MarkedWithin(c)

\* a "$schema" key strictly below the top level of v
MarkedBelowTop(v) == \E c \in Children(v) : MarkedWithin(c)

\* C1: for every instance given to generate_schema, with nothing matched by the
\* registry, "$schema" never occurs inside a nested "properties", "items" or
\* "oneOf" value of the returned schema, and the schema of an object instance
\* carries it at the top level.
C1_MarkerOnlyAtTopLevel ==
    (Generated /\ known_types = NoKnownTypes /\ ~Failed(result)) =>
        /\ ~MarkedBelowTop(result)
        /\ (args.instance.t = "Object" => HasKey(result, "$schema"))

\* the spec's condition of the structural merge: object-kind schemas with the same
\* "type" tag, each with a non-empty property mapping
HasNonEmptyProperties(schema) ==
    /\ HasKey(schema, "properties")
    /\ schema.o["properties"].t = "Object"
    /\ DOMAIN schema.o["properties"].o # {}

SameTypeTag(schema1, schema2) ==
    /\ schema1.t = "Object"
    /\ schema2.t = "Object"
    /\ Get(schema1.o, "type") = Get(schema2.o, "type")

\* C2 as stated: two schemas that differ merge to the union {"oneOf": [left, right]}
\* unless both are object-kind with the same "type" tag and both have a non-empty
\* property mapping (checked on the calls that return a schema).
C2_UnionUnlessNonEmptyProperties ==
    (Merged /\ ~Failed(result) /\ args.schema1 # args.schema2
       /\ ~(/\ SameTypeTag(args.schema1, args.schema2)
            /\ HasNonEmptyProperties(args.schema1)
            /\ HasNonEmptyProperties(args.schema2))) =>
        result = OneOf(args.schema1, args.schema2)

\* C2 as amended: two schemas that differ merge to the union {"oneOf": [left, right]},
\* left first, exactly when it is not the case that both are JSON objects with equal
\* "type" entries (both absent counts as equal) that both contain a "properties"
\* key; an empty "properties" mapping does not prevent the structural merge.
C2_UnionUnlessBothHaveProperties ==
    (Merged /\ args.schema1 # args.schema2) =>
        (result = OneOf(args.schema1, args.schema2)
            <=> ~(/\ SameTypeTag(args.schema1, args.schema2)
                  /\ HasKey(args.schema1, "properties")
                  /\ HasKey(args.schema2, "properties")))

\* the schema inferred from {} merged with an object schema that has a property:
\* the result is an object schema, not a union
C2_Witness ==
    /\ Merged
    /\ args.schema1 = With(With(BareObjectSchema(EmptyMap), "required", Array(<<>>)),
                           "$schema", Draft07)
    /\ HasNonEmptyProperties(args.schema2)
    /\ HasKey(result, "properties")
    /\ ~HasKey(result, "oneOf")

\* both sides have a "type" tag, the same one, and a property mapping
StructuralInputs(schema1, schema2) ==
    /\ schema1 # schema2
    /\ SameTypeTag(schema1, schema2)
    /\ HasKey(schema1, "type")
    /\ HasKey(schema1, "properties") /\ schema1.o["properties"].t = "Object"
    /\ HasKey(schema2, "properties") /\ schema2.o["properties"].t = "Object"

\* C3: the structural merge of two different object schemas is exactly
\* {"type": shared tag, "properties": P}, P keyed by the union of the two sides'
\* property names, with the right side's value where the right side declares the
\* name and the left side's value otherwise; no "required", "$ref" or "$schema".
C3_StructuralMergeRightWins ==
    (Merged /\ StructuralInputs(args.schema1, args.schema2)) =>
        LET props1 == args.schema1.o["properties"].o
            props2 == args.schema2.o["properties"].o
        IN  /\ result.t = "Object"
            /\ DOMAIN result.o = {"type", "properties"}
            /\ result.o["type"] = args.schema1.o["type"]
            /\ result.o["properties"].t = "Object"
            /\ DOMAIN result.o["properties"].o = DOMAIN props1 \cup DOMAIN props2
            /\ \A k \in DOMAIN props2 : result.o["properties"].o[k] = props2[k]
            /\ \A k \in DOMAIN props1 \ DOMAIN props2 :
                  result.o["properties"].o[k] = props1[k]

\* a collision on "a" with different values, the left side carrying "required"
\* and "$schema", the left side owning a name of its own
C3_Witness ==
    /\ Merged
    /\ StructuralInputs(args.schema1, args.schema2)
    /\ HasKey(args.schema1, "required") /\ HasKey(args.schema1, "$schema")
    /\ DOMAIN args.schema1.o["properties"].o = {"a", "b"}
    /\ DOMAIN args.schema2.o["properties"].o = {"a"}
    /\ args.schema1.o["properties"].o["a"] # args.schema2.o["properties"].o["a"]
    /\ result.o["properties"].o["a"] = args.schema2.o["properties"].o["a"]
    /\ ~HasKey(result, "required")

\* the schemas inferred for the elements of an array, in order
ElementSchemas(arr) == [i \in DOMAIN arr |-> generate_schema(arr[i])]

Front(seq) == SubSeq(seq, 1, Len(seq) - 1)
Last(seq) == seq[Len(seq)]

\* merge(...merge(merge(s0, s1), s2)..., sn), by recursion on the last element
RECURSIVE LeftFold(_)
LeftFold(schemas) ==
    IF Len(schemas) = 1 THEN schemas[1]
    ELSE LET acc == LeftFold(Front(schemas))
         IN  IF Failed(acc) THEN acc ELSE merge_schemas(acc, Last(schemas))

\* the left-deep union: two alternatives each, the first the union of the rest
RECURSIVE LeftDeep(_)
LeftDeep(schemas) ==
    IF Len(schemas) = 1 THEN schemas[1]
    ELSE OneOf(LeftDeep(Front(schemas)), Last(schemas))

IsPrimitive(v) == v.t \in {"Null", "Bool", "String", "Number"}

PairwiseDifferentKinds(arr) ==
    /\ \A i \in DOMAIN arr : IsPrimitive(arr[i])
    /\ \A i, j \in DOMAIN arr :
          i # j => generate_schema(arr[i]) # generate_schema(arr[j])

\* C4: the "items" of an array's schema is the left-to-right fold of merge over the
\* elements' schemas, the first being the initial accumulator, nothing deduplicated
\* or reordered; elements of pairwise different primitive kinds give the left-deep
\* two-way "oneOf"; the empty array gives {"type": "array", "items": {}}; and
\* find_common_schema itself is that fold.
C4_ItemsIsLeftFold ==
    /\ (Generated /\ args.instance.t = "Array" /\ ~Failed(result)) =>
          LET arr == args.instance.a
          IN  IF Len(arr) = 0 THEN result = ArraySchema(Object(EmptyMap))
              ELSE /\ result = ArraySchema(LeftFold(ElementSchemas(arr)))
                   /\ PairwiseDifferentKinds(arr) =>
                         result.o["items"] = LeftDeep(ElementSchemas(arr))
    /\ (Folded /\ Len(args.schemas) > 0) => result = LeftFold(args.schemas)

\* three elements of three primitive kinds: a union of a union and a schema
C4_Witness ==
    /\ Generated
    /\ args.instance.t = "Array"
    /\ Len(args.instance.a) = 3
    /\ PairwiseDifferentKinds(args.instance.a)
    /\ result.o["items"] =
          OneOf(OneOf(generate_schema(args.instance.a[1]),
                      generate_schema(args.instance.a[2])),
                generate_schema(args.instance.a[3]))

\* C5: merge_schemas(S, S) is S, with every key S carries; so an array whose
\* elements all infer to the same schema S has "items" equal to S.
C5_MergeIdempotent ==
    /\ (Merged /\ args.schema1 = args.schema2) => result = args.schema1
    /\ (Generated /\ args.instance.t = "Array" /\ Len(args.instance.a) > 0) =>
          LET schemas == ElementSchemas(args.instance.a)
          IN  (/\ ~Failed(schemas[1])
               /\ \A i \in DOMAIN schemas : schemas[i] = schemas[1]) =>
                  result = ArraySchema(schemas[1])

\* an object schema with properties, "required" and "$schema" merged with itself
C5_Witness ==
    /\ Merged
    /\ args.schema1 = args.schema2
    /\ HasNonEmptyProperties(args.schema1)
    /\ HasKey(args.schema1, "required")
    /\ HasKey(args.schema1, "$schema")
    /\ result = args.schema1

\* the object instance is inferred, not answered by the registry
Inferred ==
    /\ Generated
    /\ args.instance.t = "Object"
    /\ ~try_get(args.instance).some
    /\ ~Failed(result)

\* the strings of a "required" array
RequiredNames(schema) ==
    {schema.o["required"].a[i].s : i \in DOMAIN schema.o["required"].a}

\* C6: the "required" array of an inferred object schema is the sorted,
\* duplicate-free list of the instance's field names other than "$ref", and these
\* are the keys of "properties".
C6_RequiredSorted ==
    Inferred =>
        LET required == result.o["required"].a
        IN  /\ \A i, j \in DOMAIN required :
                  i < j => KeyRank(required[i].s) < KeyRank(required[j].s)
            /\ RequiredNames(result) = DOMAIN args.instance.o \ {"$ref"}
            /\ RequiredNames(result) = DOMAIN result.o["properties"].o

\* the fields are met in the order b, a and "required" is a, b
C6_Witness ==
    /\ Inferred
    /\ DOMAIN args.instance.o = {"a", "b"}
    /\ Iter(args.instance.o) = <<"b", "a">>
    /\ result.o["required"] = Array(<<String("a"), String("b")>>)

\* C7: a "$ref" field of an inferred object instance is copied verbatim to the
\* schema's "$ref", whatever its shape, and is in neither "properties" nor
\* "required"; every other field is inferred as usual.
C7_RefCopiedVerbatim ==
    (Inferred /\ "$ref" \in DOMAIN args.instance.o) =>
        /\ HasKey(result, "$ref")
        /\ result.o["$ref"] = args.instance.o["$ref"]
        /\ "$ref" \notin DOMAIN result.o["properties"].o
        /\ "$ref" \notin RequiredNames(result)
        /\ \A k \in DOMAIN args.instance.o \ {"$ref"} :
              /\ k \in DOMAIN result.o["properties"].o
              /\ result.o["properties"].o[k] =
                    RemoveSchemaKey(generate_schema(args.instance.o[k]))

\* a "$ref" whose value is an object, beside an ordinary field
C7_Witness ==
    /\ Inferred
    /\ DOMAIN args.instance.o = {"$ref", "a"}
    /\ args.instance.o["$ref"].t = "Object"
    /\ DOMAIN args.instance.o["$ref"].o # {}
    /\ result.o["$ref"] = args.instance.o["$ref"]
    /\ DOMAIN result.o["properties"].o = {"a"}

\* the value of the number is integral and within the i64 range
IntegralInI64(n) ==
    /\ n.frac = 0
    /\ n.rep = "PosInt" => n.mag[1] < 32768

\* C8 as stated: a number whose value is integral (and representable as an i64)
\* gives {"type": "integer"}, a number whose value is not integral gives
\* {"type": "number"}.
C8_IntegralIsInteger ==
    (Generated /\ args.instance.t = "Number") =>
        /\ IntegralInI64(args.instance.n) => result = TypeSchema("integer")
        /\ args.instance.n.frac # 0 => result = TypeSchema("number")

\* C8 as amended: a number gives {"type": "integer"} exactly when it is held in
\* integer representation (not as a float) and lies in the i64 range, and
\* {"type": "number"} otherwise: 3.0 and the integers above 2^63 - 1 give "number".
C8_IntegerIffIntegerRepresentation ==
    (Generated /\ args.instance.t = "Number") =>
        LET n == args.instance.n
        IN  /\ result \in {TypeSchema("integer"), TypeSchema("number")}
            /\ result = TypeSchema("integer") <=>
                  \/ n.rep = "NegInt"
                  \/ n.rep = "PosInt" /\ n.mag[1] < 32768

\* 3.0 is inferred as a number
C8_Witness ==
    /\ Generated
    /\ args.instance = Number(Float(3, 0))
    /\ result = TypeSchema("number")

\* C9: an object instance the registry answers for gets the registry's schema,
\* unchanged and without a "$schema" marker of its own, also at the top level;
\* an array or a primitive gets its usual schema whatever the registry holds for it.
C9_KnownSchemaUnchanged ==
    (Generated /\ try_get(args.instance).some) =>
        IF args.instance.t = "Object"
        THEN result = known_types[args.instance]
        ELSE /\ result # known_types[args.instance]
             /\ HasKey(result, "type")
             /\ result.o["type"] =
                   String(IF args.instance.t = "Array" THEN "array" ELSE "string")

\* the registry answers for {"a": "x"} with a schema that has no "$schema" key
C9_Witness ==
    /\ Generated
    /\ known_types = KnownUntyped
    /\ args.instance = InstA
    /\ result = KnownUntyped[InstA]
    /\ ~HasKey(result, "$schema")

\* C10: no merge step aborts: every call, also one whose schemas come from the
\* registry, ends with a schema or an error value (in this module only
\* merge_schemas can end with Panic).
C10_NoMergeStepAborts == Generated => result # Panic

====
